---- MODULE Spec2Model ----
(***************************************************************************)
(* A model of the TrueFund HTTP route layer (registerRoutes) and of the    *)
(* campaign code generator. Every request slot runs one handler; a handler *)
(* is cut into atomic steps at its awaits: one step is one call to the     *)
(* identity provider or to the data store together with the synchronous    *)
(* code that follows it up to the next await or to the response.           *)
(***************************************************************************)
EXTENDS Integers, Sequences, FiniteSets, TLC

\* ------------------------------------------------------------------ bounds
\* Concurrent POST /api/donations requests.
MaxDonationReqs == 2
\* Largest donation amount a request body carries.
MaxAmount == 2
\* POST /api/donations requests served one after the other.
MaxSerialReqs == 2
\* Concurrent PATCH /api/admin/ngo-verifications/:id requests.
MaxNgoReqs == 3
\* Math.random() is drawn from k/RandRes (k < RandRes) and from the largest
\* value below 1.
RandRes == 2

\* Denominator of the largest value Math.random() is taken to return.
RandDen == 2 ^ 20

DonationReqs == 1..MaxDonationReqs
SerialReqs == 1..MaxSerialReqs
NgoReqs == 1..MaxNgoReqs
\* The full route table is explored one request at a time.
RouteReqs == {1}
Reqs == DonationReqs \cup SerialReqs \cup NgoReqs \cup RouteReqs

\* ------------------------------------------------------------- JS values
\* null / undefined, and a present value.
Null == {}
Some(x) == {x}
Val(o) == CHOOSE x \in o : TRUE

\* {...a, ...b}: the keys of b override those of a.
Spread(a, b) ==
  [k \in (DOMAIN a) \cup (DOMAIN b) |-> IF k \in DOMAIN b THEN b[k] ELSE a[k]]

RECURSIVE SumOver(_, _)
\* The sum of f[x] over the finite set S.
SumOver(S, f) ==
  IF S = {} THEN 0
  ELSE LET x == CHOOSE y \in S : TRUE IN f[x] + SumOver(S \ {x}, f)

\* ----------------------------------------------------- identity provider
\* An Authorization header is a sequence of pieces; <<>> is a missing header.
NoHeader == <<>>
AuthHeaders ==
  {NoHeader, <<"Bearer ", "tok-u1">>, <<"Bearer ", "tok-u2">>, <<"Bearer ", "tok-bad">>}

\* authHeader.replace('Bearer ', ''): drops the first occurrence.
ReplaceBearer(h) ==
  IF \E i \in 1..Len(h) : h[i] = "Bearer "
  THEN LET i == CHOOSE j \in 1..Len(h) :
                  /\ h[j] = "Bearer "
                  /\ \A k \in 1..(j - 1) : h[k] # "Bearer "
       IN SubSeq(h, 1, i - 1) \o SubSeq(h, i + 1, Len(h))
  ELSE h

\* supabase.auth.getUser(token): the provider resolves a token to a user
\* or rejects it.
AuthGetUser(token) ==
  IF token = <<"tok-u1">> THEN [user |-> Some([id |-> "u1"]), error |-> Null]
  ELSE IF token = <<"tok-u2">> THEN [user |-> Some([id |-> "u2"]), error |-> Null]
  ELSE [user |-> Null, error |-> Some([message |-> "invalid JWT"])]

\* ------------------------------------------------------------ route table
\* The routes in the order registerRoutes registers them.
Routes == <<
  [method |-> "GET",   path |-> <<"api", "auth", "session">>],
  [method |-> "GET",   path |-> <<"api", "auth", "user">>],
  [method |-> "GET",   path |-> <<"api", "campaigns">>],
  [method |-> "GET",   path |-> <<"api", "campaigns", ":id">>],
  [method |-> "GET",   path |-> <<"api", "campaigns", "my">>],
  [method |-> "POST",  path |-> <<"api", "campaigns">>],
  [method |-> "GET",   path |-> <<"api", "campaigns", ":id", "donations">>],
  [method |-> "GET",   path |-> <<"api", "donations", "my">>],
  [method |-> "POST",  path |-> <<"api", "donations">>],
  [method |-> "GET",   path |-> <<"api", "reviews">>],
  [method |-> "POST",  path |-> <<"api", "reviews">>],
  [method |-> "GET",   path |-> <<"api", "admin", "tickets">>],
  [method |-> "POST",  path |-> <<"api", "tickets">>],
  [method |-> "PATCH", path |-> <<"api", "admin", "tickets", ":id">>],
  [method |-> "GET",   path |-> <<"api", "ngo-verifications", "my">>],
  [method |-> "POST",  path |-> <<"api", "ngo-verifications">>],
  [method |-> "GET",   path |-> <<"api", "admin", "ngo-verifications">>],
  [method |-> "PATCH", path |-> <<"api", "admin", "ngo-verifications", ":id">>],
  [method |-> "GET",   path |-> <<"api", "stats">>],
  [method |-> "POST",  path |-> <<"api", "send-hospital-verification">>],
  [method |-> "GET",   path |-> <<"api", "verify-hospital">>] >>

\* Positions in Routes of the handlers, by name.
GetAuthSession == 1
GetAuthUser == 2
GetCampaigns == 3
GetCampaignById == 4
GetCampaignsMy == 5
PostCampaigns == 6
GetCampaignDonations == 7
GetDonationsMy == 8
PostDonations == 9
GetReviews == 10
PostReviews == 11
GetAdminTickets == 12
PostTickets == 13
PatchAdminTicket == 14
GetNgoVerificationsMy == 15
PostNgoVerifications == 16
GetAdminNgoVerifications == 17
PatchAdminNgoVerification == 18
GetStats == 19
PostSendHospitalVerification == 20
GetVerifyHospital == 21
NoRoute == 0

\* A path pattern matches a path of the same length whose segments equal the
\* pattern's, a ':id' segment matching any segment.
Matches(pattern, path) ==
  /\ Len(pattern) = Len(path)
  /\ \A i \in 1..Len(pattern) : pattern[i] = ":id" \/ pattern[i] = path[i]

RouteMatches(i, method, path) ==
  /\ Routes[i].method = method
  /\ Matches(Routes[i].path, path)

\* The router hands a request to the first registered route that matches.
Dispatch(method, path) ==
  IF \E i \in 1..Len(Routes) : RouteMatches(i, method, path)
  THEN CHOOSE i \in 1..Len(Routes) :
         /\ RouteMatches(i, method, path)
         /\ \A j \in 1..(i - 1) : ~RouteMatches(j, method, path)
  ELSE NoRoute

\* A field of a JSON object: undefined (Null) when the key is absent.
Get(obj, key) == IF key \in DOMAIN obj THEN Some(obj[key]) ELSE Null

EmptyObject == <<>>
NoRequest ==
  [method |-> "", path |-> <<>>, authorization |-> NoHeader,
   body |-> EmptyObject, query |-> EmptyObject]

\* ------------------------------------------------ generateUniqueCampaignCode
\* Math.random() returns k / RandDen for one of these k.
RandomDraws == {(k * RandDen) \div RandRes : k \in 0..(RandRes - 1)} \cup {RandDen - 1}

Chars == <<"A", "B", "C", "D", "E", "F", "G", "H", "I", "J", "K", "L", "M",
           "N", "O", "P", "Q", "R", "S", "T", "U", "V", "W", "X", "Y", "Z",
           "0", "1", "2", "3", "4", "5", "6", "7", "8", "9">>

\* The number of random characters of a code.
CodeLength == 6

\* str.charAt(i): the empty string outside the string.
CharAt(str, i) == IF i \in 0..(Len(str) - 1) THEN <<str[i + 1]>> ELSE <<>>

RandomIndex_Ceil(draw, n) == (draw * n + RandDen - 1) \div RandDen

\* Math.floor(Math.random() * n) for the draw k / RandDen.
RandomIndex(draw, n) == (draw * n) \div RandDen

RECURSIVE CodeLoop(_, _, _)
\* The loop of generateUniqueCampaignCode from iteration i on.
CodeLoop(code, i, draws) ==
  IF i < CodeLength
    THEN CodeLoop(code \o CharAt(Chars, RandomIndex(draws[i + 1], Len(Chars))), i + 1, draws)
    ELSE code

\* generateUniqueCampaignCode() when Math.random() returns draws[1], draws[2], ...
GenerateUniqueCampaignCode(draws) == CodeLoop(<<"T", "F", "-">>, 0, draws)

\* ------------------------------------------------------------- data store
UserIds == {"u1", "u2", "u3"}
CampaignIds == {"c1", "c2"}
VerificationIds == {"v1", "v2"}

\* The error objects the store client returns. PGRST116 is the error of
\* .single() when the result holds no row.
NoRowsError == [code |-> "PGRST116", message |-> "no rows returned"]
StoreFailure == [code |-> "XX000", message |-> "store failure"]

VARIABLES
  users,              \* table users: id -> row
  campaigns,          \* table campaigns: id -> row
  donations,          \* table donations: set of rows
  reviews,            \* table reviews: set of rows
  tickets,            \* table tickets: id -> row
  ngo_verifications,  \* table ngo_verifications: id -> row
  req,                \* per slot: the request being served
  route,              \* per slot: the route the request was dispatched to
  pc,                 \* per slot: where the handler stands
  user,               \* per slot: the user the provider resolved (or Null)
  local,              \* per slot: the handler's other local (campaign, code, verification)
  resp,               \* per slot: the response sent (or Null)
  calls               \* per slot: the store calls made, in order

tables == <<users, campaigns, donations, reviews, tickets, ngo_verifications>>
vars == <<users, campaigns, donations, reviews, tickets, ngo_verifications,
          req, route, pc, user, local, resp, calls>>

\* A store call as recorded in calls.
Call(table, op, error) == [table |-> table, op |-> op, error |-> error]

\* res.status(s).json(body) / res.json(body) followed by the handler's return.
Respond(r, status, body) ==
  /\ resp' = [resp EXCEPT ![r] = Some([status |-> status, body |-> body])]
  /\ pc' = [pc EXCEPT ![r] = "done"]

Goto(r, label) ==
  /\ pc' = [pc EXCEPT ![r] = label]
  /\ UNCHANGED resp

Log(r, table, op, error) ==
  calls' = [calls EXCEPT ![r] = Append(@, Call(table, op, error))]

At(r, rt, label) == pc[r] = label /\ route[r] = rt

\* req.params.id of the request in slot r.
ParamId(r) ==
  LET pattern == Routes[route[r]].path
  IN req[r].path[CHOOSE i \in 1..Len(pattern) : pattern[i] = ":id"]

\* .single(): the one row of the result; an error when the call fails or
\* the result does not hold exactly one row.
Single(rows, fail) ==
  IF fail THEN [data |-> Null, error |-> Some(StoreFailure)]
  ELSE IF Cardinality(rows) = 1 THEN [data |-> rows, error |-> Null]
  ELSE [data |-> Null, error |-> Some(NoRowsError)]

\* A query returning a list: the rows, or an error when the call fails.
Many(rows, fail) ==
  IF fail THEN [data |-> Null, error |-> Some(StoreFailure)]
  ELSE [data |-> Some(rows), error |-> Null]

\* The rows of a table kept as id -> row.
Rows(table) == {table[id] : id \in DOMAIN table}

\* The id the store gives the row a request inserts.
NewRowId(r) == <<"n1", "n2", "n3", "n4", "n5", "n6">>[r]

\* ------------------------------------------------------------------- Init
InitCode == <<"T", "F", "-", "A", "A", "A", "A", "A", "A">>

Init ==
  /\ users = [u \in UserIds |-> [id |-> u, is_ngo |-> FALSE]]
  /\ campaigns = [c \in CampaignIds |->
                    [id |-> c, created_by |-> "u1", unique_code |-> InitCode,
                     collected_amount |-> 0, verified |-> FALSE]]
  /\ donations = {}
  /\ reviews = {}
  /\ tickets = [t \in {"t1"} |-> [id |-> t, status |-> "open"]]
  /\ ngo_verifications =
       [v \in VerificationIds |->
          [id |-> v, user_id |-> IF v = "v1" THEN "u1" ELSE "u3", verified |-> FALSE]]
  /\ req = [r \in Reqs |-> NoRequest]
  /\ route = [r \in Reqs |-> NoRoute]
  /\ pc = [r \in Reqs |-> "idle"]
  /\ user = [r \in Reqs |-> Null]
  /\ local = [r \in Reqs |-> Null]
  /\ resp = [r \in Reqs |-> Null]
  /\ calls = [r \in Reqs |-> <<>>]

\* --------------------------------------------------------------- dispatch
\* A request arrives and the router picks its handler. Slots are taken in
\* order of arrival.
Receive(r, q) ==
  /\ pc[r] = "idle"
  /\ \A o \in Reqs : o < r => pc[o] # "idle"
  /\ Dispatch(q.method, q.path) # NoRoute
  /\ req' = [req EXCEPT ![r] = q]
  /\ route' = [route EXCEPT ![r] = Dispatch(q.method, q.path)]
  /\ pc' = [pc EXCEPT ![r] = "start"]
  /\ UNCHANGED <<tables, user, local, resp, calls>>

StoreErrorResponse_Generic(error) ==
  [status |-> 500, body |-> [error |-> "Internal Server Error"]]

\* The uniform answer to a store error: res.status(500).json({ error: error.message }).
StoreErrorResponse(error) == [status |-> 500, body |-> [error |-> error.message]]

\* res.status(s).json(body) given as one record.
Send(r, response) == Respond(r, response.status, response.body)

\* ----------------------------------------------------- POST /api/donations
\* x || 0
OrZero(o) == IF o = Null \/ Val(o) = 0 THEN 0 ELSE Val(o)

\* user?.id
OptId(u) == IF u = Null THEN Null ELSE Some(Val(u).id)

\* The row POST /api/donations inserts.
DonationRow(r) ==
  [id |-> r,
   campaign_id |-> req[r].body.campaignId,
   amount |-> req[r].body.amount,
   tip_amount |-> OrZero(Get(req[r].body, "tipAmount")),
   donor_name |-> Get(req[r].body, "donorName"),
   donor_id |-> OptId(user[r])]

\* The donor is resolved only when the request carries a header.
PostDonations_Start(r) ==
  /\ At(r, PostDonations, "start")
  /\ IF req[r].authorization # NoHeader
       THEN Goto(r, "getUser")
       ELSE Goto(r, "insert")
  /\ UNCHANGED <<tables, req, route, user, local, calls>>

PostDonations_GetUser(r) ==
  /\ At(r, PostDonations, "getUser")
  /\ user' = [user EXCEPT ![r] = AuthGetUser(ReplaceBearer(req[r].authorization)).user]
  /\ Goto(r, "insert")
  /\ UNCHANGED <<tables, req, route, local, calls>>

DonationResponse_Error(r) == [status |-> 500, body |-> [error |-> StoreFailure.message]]

\* res.json(donation), the answer once the insert went through.
DonationResponse(r) == [status |-> 200, body |-> DonationRow(r)]

\* The insert of the donation row; its failure ends the handler with a 500.
PostDonations_Insert(r) ==
  /\ At(r, PostDonations, "insert")
  /\ \E fail \in BOOLEAN :
       IF fail
       THEN /\ Log(r, "donations", "insert", Some(StoreFailure))
            /\ Send(r, StoreErrorResponse(StoreFailure))
            /\ UNCHANGED donations
       ELSE /\ Log(r, "donations", "insert", Null)
            /\ donations' = donations \cup {DonationRow(r)}
            /\ Goto(r, "select")
  /\ UNCHANGED <<users, campaigns, reviews, tickets, ngo_verifications,
                 req, route, user, local>>

\* The read of the campaign's collected_amount; its error is dropped, and
\* without a row the update is skipped.
PostDonations_Select(r) ==
  /\ At(r, PostDonations, "select")
  /\ \E fail \in BOOLEAN :
       LET cid == req[r].body.campaignId
           res == Single({[collected_amount |-> row.collected_amount] :
                            row \in {x \in Rows(campaigns) : x.id = cid}}, fail)
       IN /\ Log(r, "campaigns", "select", res.error)
          /\ local' = [local EXCEPT ![r] = res.data]
          /\ IF res.data # Null
               THEN Goto(r, "update")
               ELSE Send(r, DonationResponse(r))
  /\ UNCHANGED <<tables, req, route, user>>

NewCollected_Overwrite(campaign, amount) == amount

NewCollected_NoAdd(campaign, amount) == campaign.collected_amount

NewCollected_Twice(campaign, amount) == campaign.collected_amount + amount + amount

\* campaign.collected_amount + amount
NewCollected(campaign, amount) == campaign.collected_amount + amount

\* The write of the new total; its result is not looked at.
PostDonations_Update(r) ==
  /\ At(r, PostDonations, "update")
  /\ \E fail \in BOOLEAN :
       LET cid == req[r].body.campaignId
           total == NewCollected(Val(local[r]), req[r].body.amount)
       IN IF fail \/ cid \notin DOMAIN campaigns
          THEN /\ Log(r, "campaigns", "update", IF fail THEN Some(StoreFailure) ELSE Null)
               /\ UNCHANGED campaigns
          ELSE /\ Log(r, "campaigns", "update", Null)
               /\ campaigns' = [campaigns EXCEPT
                                  ![cid] = Spread(@, [collected_amount |-> total])]
  /\ Send(r, DonationResponse(r))
  /\ UNCHANGED <<users, donations, reviews, tickets, ngo_verifications,
                 req, route, user, local>>

\* The requests the donation specifications draw from.
DonationBodies ==
  {[campaignId |-> "c1", amount |-> a] : a \in 0..MaxAmount}
  \cup {[campaignId |-> "c2", amount |-> MaxAmount, tipAmount |-> 1]}

DonationRequests ==
  {[method |-> "POST", path |-> <<"api", "donations">>, authorization |-> h,
    body |-> b, query |-> EmptyObject] :
     h \in {NoHeader, <<"Bearer ", "tok-u1">>}, b \in DonationBodies}

ReceiveDonation(r) == \E q \in DonationRequests : Receive(r, q)

\* No handler is between its arrival and its response.
Quiet == \A o \in Reqs : pc[o] \in {"idle", "done"}

ReceiveDonationSerial(r) == Quiet /\ ReceiveDonation(r)

\* Concurrent donation handlers, store calls free to fail.
NextDonations ==
  \E r \in DonationReqs :
    \/ ReceiveDonation(r)
    \/ PostDonations_Start(r)
    \/ PostDonations_GetUser(r)
    \/ PostDonations_Insert(r)
    \/ PostDonations_Select(r)
    \/ PostDonations_Update(r)

SpecDonations == Init /\ [][NextDonations]_vars

\* Donation handlers one at a time (single writer), store calls free to fail.
NextSerial ==
  \E r \in SerialReqs :
    \/ ReceiveDonationSerial(r)
    \/ PostDonations_Start(r)
    \/ PostDonations_GetUser(r)
    \/ PostDonations_Insert(r)
    \/ PostDonations_Select(r)
    \/ PostDonations_Update(r)

SpecSerial == Init /\ [][NextSerial]_vars

\* --------------------------------- PATCH /api/admin/ngo-verifications/:id
Promotes_Always(verified) == TRUE

\* if (verified)
Promotes(verified) == verified

\* update({ verified }).eq('id', id).select().single(): the updated row, an
\* error when the call fails or no row has the id.
PatchNgo_Update(r) ==
  /\ At(r, PatchAdminNgoVerification, "start")
  /\ \E fail \in BOOLEAN :
       LET id == ParamId(r)
           verified == req[r].body.verified
           updated == IF ~fail /\ id \in DOMAIN ngo_verifications
                        THEN {Spread(ngo_verifications[id], [verified |-> verified])}
                        ELSE {}
           res == Single(updated, fail)
       IN /\ Log(r, "ngo_verifications", "update", res.error)
          /\ ngo_verifications' =
               IF updated # {}
                 THEN [ngo_verifications EXCEPT ![id] = Val(updated)]
                 ELSE ngo_verifications
          /\ local' = [local EXCEPT ![r] = res.data]
          /\ IF res.error # Null
               THEN Send(r, StoreErrorResponse(Val(res.error)))
               ELSE IF Promotes(verified)
                      THEN Goto(r, "promote")
                      ELSE Respond(r, 200, Val(res.data))
  /\ UNCHANGED <<users, campaigns, donations, reviews, tickets, req, route, user>>

\* update({ is_ngo: true }).eq('id', verification.user_id); the result of
\* the call is not looked at.
PatchNgo_Promote(r) ==
  /\ At(r, PatchAdminNgoVerification, "promote")
  /\ \E fail \in BOOLEAN :
       LET uid == Val(local[r]).user_id
       IN IF fail \/ uid \notin DOMAIN users
          THEN /\ Log(r, "users", "update", IF fail THEN Some(StoreFailure) ELSE Null)
               /\ UNCHANGED users
          ELSE /\ Log(r, "users", "update", Null)
               /\ users' = [users EXCEPT ![uid] = Spread(@, [is_ngo |-> TRUE])]
  /\ Respond(r, 200, Val(local[r]))
  /\ UNCHANGED <<campaigns, donations, reviews, tickets, ngo_verifications,
                 req, route, user, local>>

NgoRequests ==
  {[method |-> "PATCH", path |-> <<"api", "admin", "ngo-verifications", id>>,
    authorization |-> NoHeader, body |-> [verified |-> v], query |-> EmptyObject] :
     id \in VerificationIds \cup {"zz"}, v \in BOOLEAN}

ReceiveNgo(r) == \E q \in NgoRequests : Receive(r, q)

\* Concurrent approvals and revocations, store calls free to fail.
NextNgo ==
  \E r \in NgoReqs :
    \/ ReceiveNgo(r)
    \/ PatchNgo_Update(r)
    \/ PatchNgo_Promote(r)

SpecNgo == Init /\ [][NextNgo]_vars

\* ------------------------------------------------------ the bearer check
\* The routes whose handler starts with the bearer check.
ProtectedRoutes ==
  {GetAuthUser, GetCampaignsMy, PostCampaigns, GetDonationsMy,
   GetNgoVerificationsMy, PostNgoVerifications}

Unauthorized == [status |-> 401, body |-> [error |-> "Unauthorized"]]

\* if (!authHeader) return 401
Auth_Start(r) ==
  /\ pc[r] = "start"
  /\ route[r] \in ProtectedRoutes
  /\ IF req[r].authorization = NoHeader
       THEN Send(r, Unauthorized)
       ELSE Goto(r, "getUser")
  /\ UNCHANGED <<tables, req, route, user, local, calls>>

\* getUser(token); if (authError || !user) return 401
Auth_GetUser(r) ==
  /\ pc[r] = "getUser"
  /\ route[r] \in ProtectedRoutes
  /\ LET res == AuthGetUser(ReplaceBearer(req[r].authorization))
     IN IF res.error # Null \/ res.user = Null
          THEN Send(r, Unauthorized) /\ UNCHANGED user
          ELSE Goto(r, "query") /\ user' = [user EXCEPT ![r] = res.user]
  /\ UNCHANGED <<tables, req, route, local, calls>>

\* The handler stands at its first store call.
AtQuery(r, rt) ==
  /\ route[r] = rt
  /\ pc[r] = IF rt \in ProtectedRoutes THEN "query" ELSE "start"

\* ------------------------------------------------- GET /api/auth/session
Session_Start(r) ==
  /\ At(r, GetAuthSession, "start")
  /\ IF req[r].authorization = NoHeader
       THEN Respond(r, 200, Null)
       ELSE Goto(r, "getUser")
  /\ UNCHANGED <<tables, req, route, user, local, calls>>

Session_GetUser(r) ==
  /\ At(r, GetAuthSession, "getUser")
  /\ LET res == AuthGetUser(ReplaceBearer(req[r].authorization))
     IN /\ user' = [user EXCEPT ![r] = res.user]
        /\ IF res.error # Null \/ res.user = Null
             THEN Respond(r, 200, Null)
             ELSE Respond(r, 200, [user |-> Val(res.user)])
  /\ UNCHANGED <<tables, req, route, local, calls>>

\* ---------------------------------------------------- GET /api/auth/user
GetAuthUser_Query(r) ==
  /\ AtQuery(r, GetAuthUser)
  /\ \E fail \in BOOLEAN :
       LET res == Single({x \in Rows(users) : x.id = Val(user[r]).id}, fail)
       IN /\ Log(r, "users", "select", res.error)
          /\ IF res.error # Null
               THEN Respond(r, 404, [error |-> "User not found"])
               ELSE Respond(r, 200, Val(res.data))
  /\ UNCHANGED <<tables, req, route, user, local>>

\* ------------------------------------------------------- the list routes
\* GET /api/campaigns, /api/campaigns/my, /api/campaigns/:id/donations,
\* /api/donations/my, /api/reviews, /api/admin/tickets and
\* /api/admin/ngo-verifications: one select, its rows as the answer.
ListRoutes ==
  {GetCampaigns, GetCampaignsMy, GetCampaignDonations, GetDonationsMy,
   GetReviews, GetAdminTickets, GetAdminNgoVerifications}

ListTable(rt) ==
  CASE rt \in {GetCampaigns, GetCampaignsMy} -> "campaigns"
    [] rt \in {GetCampaignDonations, GetDonationsMy} -> "donations"
    [] rt = GetReviews -> "reviews"
    [] rt = GetAdminTickets -> "tickets"
    [] rt = GetAdminNgoVerifications -> "ngo_verifications"

\* The rows the select of a list route asks for (the bounds keep reviews
\* under the limit of 10; the order of the rows is not modelled).
ListRows(r) ==
  CASE route[r] = GetCampaigns -> Rows(campaigns)
    [] route[r] = GetCampaignsMy ->
         {x \in Rows(campaigns) : x.created_by = Val(user[r]).id}
    [] route[r] = GetCampaignDonations ->
         {x \in donations : x.campaign_id = ParamId(r)}
    [] route[r] = GetDonationsMy ->
         {x \in donations : x.donor_id = Some(Val(user[r]).id)}
    [] route[r] = GetReviews -> reviews
    [] route[r] = GetAdminTickets -> Rows(tickets)
    [] route[r] = GetAdminNgoVerifications -> Rows(ngo_verifications)

List_Query(r) ==
  /\ route[r] \in ListRoutes
  /\ AtQuery(r, route[r])
  /\ \E fail \in BOOLEAN :
       LET res == Many(ListRows(r), fail)
       IN /\ Log(r, ListTable(route[r]), "select", res.error)
          /\ IF res.error # Null
               THEN Send(r, StoreErrorResponse(Val(res.error)))
               ELSE Respond(r, 200, Val(res.data))
  /\ UNCHANGED <<tables, req, route, user, local>>

\* ------------------------------------------------ GET /api/campaigns/:id
\* Every error of the select, whatever it is, is answered with 404.
GetCampaignById_Query(r) ==
  /\ AtQuery(r, GetCampaignById)
  /\ \E fail \in BOOLEAN :
       LET res == Single({x \in Rows(campaigns) : x.id = ParamId(r)}, fail)
       IN /\ Log(r, "campaigns", "select", res.error)
          /\ IF res.error # Null
               THEN Respond(r, 404, [error |-> "Campaign not found"])
               ELSE Respond(r, 200, Val(res.data))
  /\ UNCHANGED <<tables, req, route, user, local>>

\* --------------------------------------------------- POST /api/campaigns
\* const uniqueCode = generateUniqueCampaignCode()
PostCampaigns_Generate(r) ==
  /\ AtQuery(r, PostCampaigns)
  /\ \E draws \in [1..CodeLength -> RandomDraws] :
       local' = [local EXCEPT ![r] = Some([uniqueCode |-> GenerateUniqueCampaignCode(draws)])]
  /\ Goto(r, "insert")
  /\ UNCHANGED <<tables, req, route, user, calls>>

\* The columns the store fills in for a new campaign.
CampaignDefaults(r) == [id |-> NewRowId(r), collected_amount |-> 0, verified |-> FALSE]

ServerFields_First(body, userId, uniqueCode) ==
  Spread([created_by |-> userId, unique_code |-> uniqueCode], body)

\* { ...req.body, created_by: user.id, unique_code: uniqueCode }
ServerFields(body, userId, uniqueCode) ==
  Spread(body, [created_by |-> userId, unique_code |-> uniqueCode])

PostCampaigns_Insert(r) ==
  /\ At(r, PostCampaigns, "insert")
  /\ \E fail \in BOOLEAN :
       LET row == Spread(CampaignDefaults(r),
                         ServerFields(req[r].body, Val(user[r]).id, Val(local[r]).uniqueCode))
       IN IF fail
          THEN /\ Log(r, "campaigns", "insert", Some(StoreFailure))
               /\ Send(r, StoreErrorResponse(StoreFailure))
               /\ UNCHANGED campaigns
          ELSE /\ Log(r, "campaigns", "insert", Null)
               /\ campaigns' = [id \in DOMAIN campaigns \cup {row.id} |->
                                  IF id = row.id THEN row ELSE campaigns[id]]
               /\ Respond(r, 200, row)
  /\ UNCHANGED <<users, donations, reviews, tickets, ngo_verifications,
                 req, route, user, local>>

\* ------------------------------------- POST /api/reviews, POST /api/tickets
PostReviews_Insert(r) ==
  /\ AtQuery(r, PostReviews)
  /\ \E fail \in BOOLEAN :
       LET row == Spread([id |-> NewRowId(r)], req[r].body)
       IN IF fail
          THEN /\ Log(r, "reviews", "insert", Some(StoreFailure))
               /\ Send(r, StoreErrorResponse(StoreFailure))
               /\ UNCHANGED reviews
          ELSE /\ Log(r, "reviews", "insert", Null)
               /\ reviews' = reviews \cup {row}
               /\ Respond(r, 200, row)
  /\ UNCHANGED <<users, campaigns, donations, tickets, ngo_verifications,
                 req, route, user, local>>

PostTickets_Insert(r) ==
  /\ AtQuery(r, PostTickets)
  /\ \E fail \in BOOLEAN :
       LET row == Spread([id |-> NewRowId(r), status |-> "open"], req[r].body)
       IN IF fail
          THEN /\ Log(r, "tickets", "insert", Some(StoreFailure))
               /\ Send(r, StoreErrorResponse(StoreFailure))
               /\ UNCHANGED tickets
          ELSE /\ Log(r, "tickets", "insert", Null)
               /\ tickets' = [id \in DOMAIN tickets \cup {row.id} |->
                                IF id = row.id THEN row ELSE tickets[id]]
               /\ Respond(r, 200, row)
  /\ UNCHANGED <<users, campaigns, donations, reviews, ngo_verifications,
                 req, route, user, local>>

\* ------------------------------------------- PATCH /api/admin/tickets/:id
PatchTicket_Update(r) ==
  /\ AtQuery(r, PatchAdminTicket)
  /\ \E fail \in BOOLEAN :
       LET id == ParamId(r)
           updated == IF ~fail /\ id \in DOMAIN tickets
                        THEN {Spread(tickets[id], req[r].body)}
                        ELSE {}
           res == Single(updated, fail)
       IN /\ Log(r, "tickets", "update", res.error)
          /\ tickets' = IF updated # {}
                          THEN [tickets EXCEPT ![id] = Val(updated)]
                          ELSE tickets
          /\ IF res.error # Null
               THEN Send(r, StoreErrorResponse(Val(res.error)))
               ELSE Respond(r, 200, Val(res.data))
  /\ UNCHANGED <<users, campaigns, donations, reviews, ngo_verifications,
                 req, route, user, local>>

\* ------------------------------------------ GET /api/ngo-verifications/my
\* if (error && error.code !== 'PGRST116') return 500; a user without a
\* verification gets null.
GetNgoMy_Query(r) ==
  /\ AtQuery(r, GetNgoVerificationsMy)
  /\ \E fail \in BOOLEAN :
       LET res == Single({x \in Rows(ngo_verifications) : x.user_id = Val(user[r]).id}, fail)
       IN /\ Log(r, "ngo_verifications", "select", res.error)
          /\ IF res.error # Null /\ Val(res.error).code # "PGRST116"
               THEN Send(r, StoreErrorResponse(Val(res.error)))
               ELSE Respond(r, 200, res.data)
  /\ UNCHANGED <<tables, req, route, user, local>>

\* ------------------------------------------- POST /api/ngo-verifications
PostNgo_Insert(r) ==
  /\ AtQuery(r, PostNgoVerifications)
  /\ \E fail \in BOOLEAN :
       LET row == Spread([id |-> NewRowId(r), verified |-> FALSE],
                         Spread(req[r].body, [user_id |-> Val(user[r]).id]))
       IN IF fail
          THEN /\ Log(r, "ngo_verifications", "insert", Some(StoreFailure))
               /\ Send(r, StoreErrorResponse(StoreFailure))
               /\ UNCHANGED ngo_verifications
          ELSE /\ Log(r, "ngo_verifications", "insert", Null)
               /\ ngo_verifications' =
                    [id \in DOMAIN ngo_verifications \cup {row.id} |->
                       IF id = row.id THEN row ELSE ngo_verifications[id]]
               /\ Respond(r, 200, row)
  /\ UNCHANGED <<users, campaigns, donations, reviews, tickets,
                 req, route, user, local>>

\* --------------------------------------------------------- GET /api/stats
\* Neither select's error is looked at: a failed select counts as no rows.
Stats_Campaigns(r) ==
  /\ At(r, GetStats, "start")
  /\ \E fail \in BOOLEAN :
       LET res == Many({[collected_amount |-> x.collected_amount, verified |-> x.verified] :
                          x \in Rows(campaigns)}, fail)
       IN /\ Log(r, "campaigns", "select", res.error)
          /\ local' = [local EXCEPT ![r] = res.data]
  /\ Goto(r, "donations")
  /\ UNCHANGED <<tables, req, route, user>>

Stats_Donations(r) ==
  /\ At(r, GetStats, "donations")
  /\ \E fail \in BOOLEAN :
       LET res == Many(donations, fail)
           cs == IF local[r] = Null THEN {} ELSE Val(local[r])
           ds == IF res.data = Null THEN {} ELSE Val(res.data)
       IN /\ Log(r, "donations", "select", res.error)
          /\ Respond(r, 200,
               [totalRaised |-> SumOver(cs, [c \in cs |-> c.collected_amount]),
                campaignsFunded |-> Cardinality({c \in cs : c.verified}),
                livesImpacted |-> Cardinality(ds)])
  /\ UNCHANGED <<tables, req, route, user, local>>

\* ----------------------------------- POST /api/send-hospital-verification
SendHospitalVerification(r) ==
  /\ At(r, PostSendHospitalVerification, "start")
  /\ Respond(r, 200, [success |-> TRUE, message |-> "Verification email sent (stubbed)"])
  /\ UNCHANGED <<tables, req, route, user, local, calls>>

\* ------------------------------------------------ GET /api/verify-hospital
VerifyHospital_Check(r) ==
  /\ At(r, GetVerifyHospital, "start")
  /\ IF Get(req[r].query, "campaign_id") = Null \/ Get(req[r].query, "decision") = Null
       THEN Respond(r, 400, [text |-> "Invalid request"])
       ELSE Goto(r, "update")
  /\ UNCHANGED <<tables, req, route, user, local, calls>>

\* update({ verified }).eq('id', campaign_id): no row with the id is no error.
VerifyHospital_Update(r) ==
  /\ At(r, GetVerifyHospital, "update")
  /\ \E fail \in BOOLEAN :
       LET id == req[r].query.campaign_id
           verified == (req[r].query.decision = "yes")
       IN IF fail
          THEN /\ Log(r, "campaigns", "update", Some(StoreFailure))
               /\ Respond(r, 500, [text |-> "Error updating campaign"])
               /\ UNCHANGED campaigns
          ELSE /\ Log(r, "campaigns", "update", Null)
               /\ campaigns' = [c \in DOMAIN campaigns |->
                                  IF c = id THEN Spread(campaigns[c], [verified |-> verified])
                                  ELSE campaigns[c]]
               /\ Respond(r, 200, [html |-> IF verified THEN "Verified" ELSE "Declined"])
  /\ UNCHANGED <<users, donations, reviews, tickets, ngo_verifications,
                 req, route, user, local>>

\* ------------------------------------------------- the whole route table
CampaignBodies ==
  {[title |-> "t"],
   [title |-> "t", unique_code |-> <<"X">>],
   [title |-> "t", created_by |-> "u3"],
   [title |-> "t", created_by |-> "u3", unique_code |-> <<"X">>]}

\* Method, path, body and query of the requests sent to the route table.
RequestLines ==
  LET Line(m, p, b, q) == [method |-> m, path |-> p, body |-> b, query |-> q]
      Gets(paths) == {Line("GET", p, EmptyObject, EmptyObject) : p \in paths}
  IN Gets({<<"api", "auth", "session">>, <<"api", "auth", "user">>,
           <<"api", "campaigns">>, <<"api", "campaigns", "c1">>,
           <<"api", "campaigns", "zz">>, <<"api", "campaigns", "my">>,
           <<"api", "campaigns", "c1", "donations">>, <<"api", "donations", "my">>,
           <<"api", "reviews">>, <<"api", "admin", "tickets">>,
           <<"api", "ngo-verifications", "my">>, <<"api", "admin", "ngo-verifications">>,
           <<"api", "stats">>})
     \cup {Line("POST", <<"api", "campaigns">>, b, EmptyObject) : b \in CampaignBodies}
     \cup {Line("POST", <<"api", "donations">>, b, EmptyObject) : b \in DonationBodies}
     \cup {Line("POST", <<"api", "reviews">>, [rating |-> 5], EmptyObject)}
     \cup {Line("POST", <<"api", "tickets">>, [subject |-> "s"], EmptyObject)}
     \cup {Line("PATCH", <<"api", "admin", "tickets", id>>, [status |-> "closed"], EmptyObject) :
             id \in {"t1", "zz"}}
     \cup {Line("POST", <<"api", "ngo-verifications">>, b, EmptyObject) :
             b \in {[document |-> "d"], [document |-> "d", user_id |-> "u3"]}}
     \cup {Line("PATCH", <<"api", "admin", "ngo-verifications", id>>, [verified |-> v], EmptyObject) :
             id \in {"v1", "zz"}, v \in BOOLEAN}
     \cup {Line("POST", <<"api", "send-hospital-verification">>,
                [campaignId |-> "c1", hospitalEmail |-> "h"], EmptyObject)}
     \cup {Line("GET", <<"api", "verify-hospital">>, EmptyObject, q) :
             q \in {EmptyObject, [campaign_id |-> "c1"],
                    [campaign_id |-> "c1", decision |-> "yes"],
                    [campaign_id |-> "c1", decision |-> "no"]}}

RouteRequests ==
  {[method |-> l.method, path |-> l.path, authorization |-> h,
    body |-> l.body, query |-> l.query] : l \in RequestLines, h \in AuthHeaders}

ReceiveAny(r) == \E q \in RouteRequests : Receive(r, q)

\* One request to any route, store calls free to fail.
Next ==
  \E r \in RouteReqs :
    \/ ReceiveAny(r)
    \/ Auth_Start(r)
    \/ Auth_GetUser(r)
    \/ Session_Start(r)
    \/ Session_GetUser(r)
    \/ GetAuthUser_Query(r)
    \/ List_Query(r)
    \/ GetCampaignById_Query(r)
    \/ PostCampaigns_Generate(r)
    \/ PostCampaigns_Insert(r)
    \/ PostDonations_Start(r)
    \/ PostDonations_GetUser(r)
    \/ PostDonations_Insert(r)
    \/ PostDonations_Select(r)
    \/ PostDonations_Update(r)
    \/ PostReviews_Insert(r)
    \/ PostTickets_Insert(r)
    \/ PatchTicket_Update(r)
    \/ GetNgoMy_Query(r)
    \/ PostNgo_Insert(r)
    \/ PatchNgo_Update(r)
    \/ PatchNgo_Promote(r)
    \/ Stats_Campaigns(r)
    \/ Stats_Donations(r)
    \/ SendHospitalVerification(r)
    \/ VerifyHospital_Check(r)
    \/ VerifyHospital_Update(r)

Spec == Init /\ [][Next]_vars

\* ================================================================ claims
Done(r) == pc[r] = "done"

\* Some store call the handler in slot r made returned an error.
Failed(r) == \E i \in 1..Len(calls[r]) : calls[r][i].error # Null

\* The handler in slot r made the call (table, op) and it returned no error.
Succeeded(r, table, op) ==
  \E i \in 1..Len(calls[r]) : calls[r][i] = Call(table, op, Null)

DonationsOf(c) == {d \in donations : d.campaign_id = c}

SumDonations(c) == SumOver(DonationsOf(c), [d \in DonationsOf(c) |-> d.amount])

\* The requests served by POST /api/donations for campaign c.
DonorsOf(c) == {r \in Reqs : route[r] = PostDonations /\ req[r].body.campaignId = c}

AmountOf(r) == req[r].body.amount

\* C2: with donation handlers run one at a time and no store call failing, a
\* handler that completes leaves collected_amount at its previous value plus
\* the amount, and between requests collected_amount is the sum of the
\* amounts of the campaign's donation rows.
C2_SingleWriterLedger ==
  /\ []((Quiet /\ \A r \in Reqs : ~Failed(r)) =>
          \A c \in CampaignIds : campaigns[c].collected_amount = SumDonations(c))
  /\ [][\A r \in Reqs :
          (route[r] = PostDonations /\ ~Done(r) /\ Done(r)' /\ ~Failed(r)') =>
            campaigns'[req[r].body.campaignId].collected_amount =
              campaigns[req[r].body.campaignId].collected_amount + AmountOf(r)]_vars

C2_Witness ==
  /\ Quiet
  /\ \A r \in Reqs : ~Failed(r)
  /\ \E r1, r2 \in DonorsOf("c1") :
       /\ r1 # r2 /\ Done(r1) /\ Done(r2)
       /\ AmountOf(r1) > 0 /\ AmountOf(r2) > 0
       /\ campaigns["c1"].collected_amount = AmountOf(r1) + AmountOf(r2)

\* Every donation handler for campaign c that arrived has completed, none of
\* them met a store error, and there is at least one.
AllCompleted(c) ==
  /\ DonorsOf(c) # {}
  /\ \A r \in DonorsOf(c) : Done(r) /\ ~Failed(r)

SentToProtected(r) ==
  \E i \in ProtectedRoutes : RouteMatches(i, req[r].method, req[r].path)

\* The request in slot r carries no header, or a token the provider rejects.
Unauthenticated(r) ==
  \/ req[r].authorization = NoHeader
  \/ AuthGetUser(ReplaceBearer(req[r].authorization)).error # Null

\* C1 as stated: an unauthenticated request to a protected route is
\* answered with 401 and makes no store call, requests being dispatched to
\* the first registered route that matches.
C1_ProtectedRoutesReject ==
  \A r \in Reqs :
    (Done(r) /\ SentToProtected(r) /\ Unauthenticated(r)) =>
      /\ Val(resp[r]).status = 401
      /\ calls[r] = <<>>

\* The resource a 404 of the handler in slot r is about does not exist.
ResourceMissing(r) ==
  CASE route[r] = GetCampaignById -> ParamId(r) \notin DOMAIN campaigns
    [] route[r] = GetAuthUser -> Val(user[r]).id \notin DOMAIN users
    [] OTHER -> TRUE

\* C7 as stated: a handler whose store call failed answers 500 with the
\* store's message, and a 404 is sent only for a resource that does not
\* exist (the no-row error of .single() is not counted as a failure here).
C7_UniformErrors ==
  \A r \in Reqs :
    Done(r) =>
      /\ \A i \in 1..Len(calls[r]) :
           calls[r][i].error = Some(StoreFailure) =>
             /\ Val(resp[r]).status = 500
             /\ Val(resp[r]).body = [error |-> StoreFailure.message]
      /\ Val(resp[r]).status = 404 => ResourceMissing(r)

UpperCase == {"A", "B", "C", "D", "E", "F", "G", "H", "I", "J", "K", "L", "M",
              "N", "O", "P", "Q", "R", "S", "T", "U", "V", "W", "X", "Y", "Z"}
Digits == {"0", "1", "2", "3", "4", "5", "6", "7", "8", "9"}

\* code matches ^TF-[A-Z0-9]{6}$
MatchesCodeFormat(code) ==
  /\ Len(code) = 9
  /\ SubSeq(code, 1, 3) = <<"T", "F", "-">>
  /\ \A i \in 4..9 : code[i] \in UpperCase \cup Digits

\* C8: every code generateUniqueCampaignCode returns matches
\* ^TF-[A-Z0-9]{6}$, and the row POST /api/campaigns stores carries that
\* code and the authenticated user's id whatever the body supplies.
C8_CampaignCode ==
  \A r \in Reqs :
    (route[r] = PostCampaigns /\ local[r] # Null) =>
      /\ MatchesCodeFormat(Val(local[r]).uniqueCode)
      /\ Succeeded(r, "campaigns", "insert") =>
           /\ NewRowId(r) \in DOMAIN campaigns
           /\ campaigns[NewRowId(r)].unique_code = Val(local[r]).uniqueCode
           /\ campaigns[NewRowId(r)].created_by = Val(user[r]).id
           /\ Val(resp[r]).body = campaigns[NewRowId(r)]

C8_Witness ==
  \E r \in Reqs :
    /\ route[r] = PostCampaigns /\ Done(r)
    /\ Succeeded(r, "campaigns", "insert")
    /\ req[r].body = [title |-> "t", created_by |-> "u3", unique_code |-> <<"X">>]
    /\ campaigns[NewRowId(r)].unique_code = <<"T", "F", "-", "9", "A", "S", "9", "9", "A">>
    /\ campaigns[NewRowId(r)].created_by = "u1"

\* The request in slot r is a PATCH of an NGO verification with this flag.
NgoPatch(r, verified) ==
  /\ route[r] = PatchAdminNgoVerification
  /\ req[r].body.verified = verified

\* C4 as stated: an approval answered with the verification record leaves
\* the referenced user's is_ngo true.
C4_ApprovalPromotes ==
  \A r \in Reqs :
    (NgoPatch(r, TRUE) /\ Done(r) /\ Val(resp[r]).status = 200) =>
      users[Val(resp[r]).body.user_id].is_ngo

\* C10: no step takes a user's is_ngo from true to false, and a PATCH with a
\* falsy verified makes no call on users and leaves the table as it is.
C10_NgoFlagMonotone ==
  /\ [](\A r \in Reqs :
          NgoPatch(r, FALSE) =>
            \A i \in 1..Len(calls[r]) : calls[r][i].table # "users")
  /\ [][/\ \A u \in UserIds : users[u].is_ngo => users'[u].is_ngo
        /\ \A r \in Reqs :
             (NgoPatch(r, FALSE)' /\ pc'[r] # pc[r]) => users' = users]_vars

\* Approved, then revoked, without any store failure: the verification is
\* not verified and its user is still an NGO.
C10_Witness ==
  /\ Quiet
  /\ \A r \in Reqs : ~Failed(r)
  /\ \E r \in Reqs :
       NgoPatch(r, FALSE) /\ Done(r) /\ ParamId(r) = "v1"
  /\ ngo_verifications["v1"].verified = FALSE
  /\ users[ngo_verifications["v1"].user_id].is_ngo

\* The handler in slot r is a donation handler whose insert failed.
InsertFailed(r) ==
  /\ route[r] = PostDonations
  /\ Len(calls[r]) > 0
  /\ calls[r][1].error # Null

\* C5: a failed donation insert is answered with 500 and the store's
\* message, and the handler stops there: it made no other store call, no
\* donation row of the request exists, and the failing step changes no table.
C5_InsertFailureAborts ==
  /\ [](\A r \in Reqs :
          InsertFailed(r) =>
            /\ Done(r)
            /\ resp[r] = Some([status |-> 500,
                               body |-> [error |-> Val(calls[r][1].error).message]])
            /\ calls[r] = <<Call("donations", "insert", calls[r][1].error)>>
            /\ \A d \in donations : d.id # r)
  /\ [][\A r \in Reqs : (~InsertFailed(r) /\ InsertFailed(r)') => UNCHANGED tables]_vars

C5_Witness ==
  \E r \in Reqs :
    /\ InsertFailed(r)
    /\ \E d \in donations : d.campaign_id = req[r].body.campaignId

\* The handler in slot r completed with its insert done and the read or the
\* update of collected_amount failed.
LedgerFailed(r) ==
  /\ route[r] = PostDonations
  /\ Done(r)
  /\ Succeeded(r, "donations", "insert")
  /\ Failed(r)

\* The handler in slot r wrote collected_amount.
LedgerWritten(r) == Succeeded(r, "campaigns", "update")

\* C6: after a successful insert, a failed read or update of
\* collected_amount changes nothing else: the donation row stays, the answer
\* is the donation with status 200, and (single writer) collected_amount
\* counts only the donations whose update went through.
C6_NoCompensation ==
  /\ \A r \in Reqs :
       LedgerFailed(r) =>
         /\ resp[r] = Some([status |-> 200, body |-> DonationRow(r)])
         /\ DonationRow(r) \in donations
         /\ ~LedgerWritten(r)
  /\ Quiet =>
       \A c \in CampaignIds :
         LET written == {r \in DonorsOf(c) : LedgerWritten(r)}
         IN campaigns[c].collected_amount =
              SumOver(written, [r \in written |-> AmountOf(r)])

C6_Witness ==
  /\ Quiet
  /\ \E r \in DonorsOf("c1") : LedgerFailed(r) /\ AmountOf(r) > 0
  /\ campaigns["c1"].collected_amount # SumDonations("c1")
  /\ campaigns["c1"].collected_amount > 0

====
